---- MODULE Spec2Model ----
(***************************************************************************)
(* Model of satisfactory-accounting-app/src/node_display.rs: the           *)
(* NodeDisplay component (path-addressed tree editor) and the GroupName    *)
(* component (inline name editor), with the balance rows it renders, and   *)
(* of node_display/icon.rs: the Icon component.                            *)
(*                                                                         *)
(* A string is a sequence of one-character strings.  An Option is a        *)
(* sequence of length 0 (None) or 1 (Some).  Paths and child indices are   *)
(* 0-based as in the source; TLA+ sequences are 1-based, hence the "+ 1".  *)
(***************************************************************************)
EXTENDS Integers, Sequences, FiniteSets, TLC

\* Largest number of nodes of a tree the model explores.
MaxNodes == 3

\* Longest icon slug the model explores.
MaxSlugLen == 2

\* Largest number of per-item entries of a balance the model explores.
MaxEntries == 2

VARIABLES
    root,       \* the tree committed by the root owner
    rendered,   \* the tree the component instances currently hold as props
    dirty,      \* the root owner committed and has not re-rendered yet
    queue,      \* Option: the NodeMsg scheduled for the instance at a path
    ownerCall,  \* Option: the replace call the root owner received
    last,       \* Option: the message NodeDisplay::update handled last
    intent,     \* Option: the intent dispatched last, with the root it met
    scen,       \* progress of the end-to-end scenario ("off": left it)
    pending,    \* GroupName.pending: Option<String>
    did_focus,  \* GroupName.did_focus
    shown,      \* what the GroupName of the root instance displays
    edit,       \* the edit sequence of the field observed so far
    flast,      \* the call the GroupName handled last, and what it did
    viewIn,     \* what a view function is given: props, or balance and database
    viewOut     \* Option: what the view function rendered for viewIn

vars == <<root, rendered, dirty, queue, ownerCall, last, intent, scen,
          pending, did_focus, shown, edit, flast, viewIn, viewOut>>

treeVars == <<root, rendered, dirty, queue, ownerCall, last, intent, scen>>
fieldVars == <<pending, did_focus, shown, edit, flast>>
viewVars == <<viewIn, viewOut>>

----------------------------------------------------------------------------
(* Strings *)

NameRoot == <<"R", "o", "o", "t">>
NameA == <<"A">>
NameFactory == <<"F", "a", "c", "t", "o", "r", "y">>

\* The strings a user types or a Rename message carries.
NameInputs ==
    { <<>>, <<" ", " ">>, NameFactory, <<" ", "a", " ", "b", " ">> }

IsWhitespace(c) == c = " "

RECURSIVE TrimStart(_)
TrimStart(s) ==
    IF s # <<>> /\ IsWhitespace(Head(s)) THEN TrimStart(Tail(s)) ELSE s

RECURSIVE TrimEnd(_)
TrimEnd(s) ==
    IF s # <<>> /\ IsWhitespace(s[Len(s)])
    THEN TrimEnd(SubSeq(s, 1, Len(s) - 1))
    ELSE s

\* A plausible slip: only the leading whitespace is removed.
TrimLeadingOnly(s) == TrimStart(s)

\* str::trim
Trim(s) == TrimEnd(TrimStart(s))

----------------------------------------------------------------------------
(* Nodes *)

GroupNode(name, children) ==
    [kind |-> "Group", name |-> name, children |-> children]

BuildingNode(settings) == [kind |-> "Building", settings |-> settings]

\* Group::empty_node(), Building::empty_node()
EmptyGroup == GroupNode(<<>>, <<>>)
EmptyBuilding == BuildingNode("empty")

IsGroup(node) == node.kind = "Group"

\* The nodes a ReplaceChild message sent from outside the tree carries.
Replacements == { BuildingNode("smelter"), EmptyGroup }

\* The node reached from `node` by descending children[path[0]], ...
RECURSIVE SubtreeAt(_, _)
SubtreeAt(node, path) ==
    IF path = <<>> THEN node
    ELSE SubtreeAt(node.children[path[1] + 1], Tail(path))

\* The path props of the instances a render of `node` creates.
RECURSIVE Paths(_)
Paths(node) ==
    {<<>>} \cup
    IF IsGroup(node)
    THEN UNION { { <<i - 1>> \o q : q \in Paths(node.children[i]) } :
                 i \in 1..Len(node.children) }
    ELSE {}

\* The number of nodes of a tree.
Size(node) == Cardinality(Paths(node))

Parent(path) == SubSeq(path, 1, Len(path) - 1)

IsPrefix(p, q) == Len(p) <= Len(q) /\ SubSeq(q, 1, Len(p)) = p

\* A plausible slip: the instance with path + [i] is given the node of the
\* next child (the first one after the last).
NodePropOfNextChild(path) ==
    IF path = <<>> THEN rendered
    ELSE LET siblings == SubtreeAt(rendered, Parent(path)).children
         IN  siblings[((path[Len(path)] + 1) % Len(siblings)) + 1]

\* The node prop of the instance whose path prop is `path`.
NodeProp(path) == SubtreeAt(rendered, path)

----------------------------------------------------------------------------
(* NodeMsg *)

ReplaceChild(idx, replacement) ==
    [type |-> "ReplaceChild", idx |-> idx, replacement |-> replacement]
DeleteChild(idx) == [type |-> "DeleteChild", idx |-> idx]
AddChild(child) == [type |-> "AddChild", child |-> child]
Rename(name) == [type |-> "Rename", name |-> name]

\* The messages sent to an instance from outside its own rendering.
Indices == 0..(MaxNodes - 1)
SentMsgs ==
    { ReplaceChild(i, x) : i \in Indices, x \in Replacements }
    \cup { DeleteChild(i) : i \in Indices }
    \cup { AddChild(EmptyGroup), AddChild(EmptyBuilding) }
    \cup { Rename(s) : s \in NameInputs }

----------------------------------------------------------------------------
(* NodeDisplay::update *)

\* A plausible slip: the default index is used at every depth.
OurIdxDefault(path) == 0

\* let our_idx = ctx.props().path.last().copied().unwrap_or_default();
OurIdx(path) == IF path = <<>> THEN 0 ELSE path[Len(path)]

\* A plausible slip: the child after the requested one is removed (the
\* last one stays when there is none).
RemoveOffByOne(children, idx) ==
    SubSeq(children, 1, idx + 1) \o SubSeq(children, idx + 3, Len(children))

\* Vec::remove(idx)
Remove(children, idx) ==
    SubSeq(children, 1, idx) \o SubSeq(children, idx + 2, Len(children))

\* ctx.props().replace.emit((our_idx, new_group.into()))
Emit(path, new_group) == << [idx |-> OurIdx(path), node |-> new_group] >>

\* A plausible slip: the child after the requested one is overwritten.
UpdateReplaceChildNext(node, path, msg) ==
    IF IsGroup(node)
    THEN IF msg.idx < Len(node.children)
         THEN Emit(path, [node EXCEPT
                  !.children[IF msg.idx + 2 <= Len(node.children)
                             THEN msg.idx + 2 ELSE 1] = msg.replacement])
         ELSE <<>>
    ELSE <<>>

\* The arm NodeMsg::ReplaceChild: the replace call it makes, if any.
UpdateReplaceChild(node, path, msg) ==
    IF IsGroup(node)
    THEN IF msg.idx < Len(node.children)
         THEN Emit(path, [node EXCEPT !.children[msg.idx + 1] = msg.replacement])
         ELSE <<>>
    ELSE <<>>

\* A plausible slip: an index past the end is clamped to the last child.
UpdateDeleteChildClamped(node, path, msg) ==
    IF IsGroup(node)
    THEN IF node.children # <<>>
         THEN Emit(path, [node EXCEPT !.children =
                  Remove(@, IF msg.idx < Len(@) THEN msg.idx ELSE Len(@) - 1)])
         ELSE <<>>
    ELSE <<>>

\* The arm NodeMsg::DeleteChild.
UpdateDeleteChild(node, path, msg) ==
    IF IsGroup(node)
    THEN IF msg.idx < Len(node.children)
         THEN Emit(path, [node EXCEPT !.children = Remove(@, msg.idx)])
         ELSE <<>>
    ELSE <<>>

\* A plausible slip: the new child is put first.
UpdateAddChildFront(node, path, msg) ==
    IF IsGroup(node)
    THEN Emit(path, [node EXCEPT !.children = <<msg.child>> \o @])
    ELSE <<>>

\* The arm NodeMsg::AddChild.
UpdateAddChild(node, path, msg) ==
    IF IsGroup(node)
    THEN Emit(path, [node EXCEPT !.children = Append(@, msg.child)])
    ELSE <<>>

\* A plausible slip: the kind of the node is not checked.
UpdateRenameAnyKind(node, path, msg) ==
    Emit(path, GroupNode(Trim(msg.name),
                         IF IsGroup(node) THEN node.children ELSE <<>>))

\* The arm NodeMsg::Rename.
UpdateRename(node, path, msg) ==
    IF IsGroup(node)
    THEN Emit(path, [node EXCEPT !.name = Trim(msg.name)])
    ELSE <<>>

Update(node, path, msg) ==
    CASE msg.type = "ReplaceChild" -> UpdateReplaceChild(node, path, msg)
      [] msg.type = "DeleteChild" -> UpdateDeleteChild(node, path, msg)
      [] msg.type = "AddChild" -> UpdateAddChild(node, path, msg)
      [] msg.type = "Rename" -> UpdateRename(node, path, msg)

----------------------------------------------------------------------------
(* The wiring of the callbacks *)

\* A plausible slip: view_group hands its own replace prop down, so the call
\* of a child goes where the call of its parent goes.
ReplaceCallbackPassedDown(path, call) ==
    [path |-> Parent(Parent(path)),
     msg |-> ReplaceChild(call.idx, call.node)]

\* view_group: replace = link.callback(|(idx, replacement)| ReplaceChild {..}),
\* given to every child: the call of a child becomes a message of its parent.
ReplaceCallback(path, call) ==
    [path |-> Parent(path), msg |-> ReplaceChild(call.idx, call.node)]

\* A plausible slip: the index of the last path element is taken for the
\* last path element.
DeleteCallbackDepth(path) ==
    [path |-> Parent(path), msg |-> DeleteChild(Len(path) - 1)]

\* delete_button: onclick emits delete_from_parent(idx), and view_group's
\* delete = link.callback(|idx| DeleteChild { idx }) makes it a message of
\* the parent.
DeleteCallback(path) ==
    [path |-> Parent(path), msg |-> DeleteChild(path[Len(path)])]

\* A plausible slip: the instance with the empty path is given a delete
\* callback as well.
DeletePropAlways(path) == << Parent(path) >>

\* The delete prop of the instance at `path`, an Option of the instance whose
\* scope the callback is bound to: view_group gives every child instance
\* Some(delete); the prop defaults to None, which is what the instance with
\* the empty path holds.
DeleteProp(path) == IF path = <<>> THEN <<>> ELSE << Parent(path) >>

\* view and delete_button: a group instance renders the button when its
\* delete prop is Some; a building instance renders nothing.
RendersDelete(path) == IsGroup(NodeProp(path)) /\ DeleteProp(path) # <<>>

\* Nothing is scheduled, received or waiting for a render.
Settled == queue = <<>> /\ ownerCall = <<>> /\ ~dirty

\* The framework is back in the event loop: it handles the next user event
\* only then.
Quiescent == Settled /\ last = <<>> /\ intent = <<>> /\ flast.ev = "idle"

ScenRoot == GroupNode(NameRoot, <<GroupNode(NameA, <<>>)>>)

\* The step of the end-to-end scenario an intent is, if any; or the step of
\* a second scenario: a second child is added to the root, the first child
\* is deleted, then the child that moved to index 0 is deleted.
ScenNext(path, msg) ==
    CASE scen = "start" /\ path = <<0>> /\ msg = AddChild(EmptyBuilding)
             -> "added"
      [] scen = "added" /\ path = <<0>> /\ msg = DeleteChild(0)
             -> "deleted"
      [] scen = "deleted" /\ path = <<>> /\ msg = Rename(NameFactory)
             -> "renamed"
      [] scen = "start" /\ path = <<>> /\ msg = AddChild(EmptyGroup)
             -> "second"
      [] scen = "second" /\ path = <<>> /\ msg = DeleteChild(0)
             -> "shifted"
      [] scen = "shifted" /\ path = <<>> /\ msg = DeleteChild(0)
             -> "emptied"
      [] OTHER -> "off"

\* The number of nodes `msg` adds when the instance at `path` handles it.
Growth(path, msg) ==
    LET node == NodeProp(path) IN
    IF ~IsGroup(node) THEN 0
    ELSE CASE msg.type = "AddChild" -> Size(msg.child)
           [] msg.type = "ReplaceChild" /\ msg.idx < Len(node.children)
                  /\ Size(msg.replacement) > Size(node.children[msg.idx + 1])
                  -> Size(msg.replacement) - Size(node.children[msg.idx + 1])
           [] OTHER -> 0

\* link.send_message: `msg` is scheduled for the instance at `path`, by an
\* event of the instance at `from`.
Dispatch(from, path, msg) ==
    /\ queue' = << [path |-> path, msg |-> msg] >>
    /\ intent' = << [from |-> from, path |-> path, msg |-> msg,
                     before |-> root] >>
    /\ last' = <<>>
    /\ scen' = ScenNext(path, msg)
    /\ UNCHANGED <<root, rendered, dirty, ownerCall>>

----------------------------------------------------------------------------
(* Actions of the tree editor *)

\* The "create-group" button of the group instance at some path.
ClickAddGroup ==
    /\ Quiescent
    /\ \E path \in Paths(rendered) :
          /\ IsGroup(NodeProp(path))
          /\ Size(rendered) < MaxNodes
          /\ Dispatch(path, path, AddChild(EmptyGroup))
    /\ UNCHANGED <<fieldVars, viewVars>>

\* The "create-building" button of the group instance at some path.
ClickAddBuilding ==
    /\ Quiescent
    /\ \E path \in Paths(rendered) :
          /\ IsGroup(NodeProp(path))
          /\ Size(rendered) < MaxNodes
          /\ Dispatch(path, path, AddChild(EmptyBuilding))
    /\ UNCHANGED <<fieldVars, viewVars>>

\* The delete button of a group instance that was given a delete callback.
ClickDelete ==
    /\ Quiescent
    /\ \E path \in Paths(rendered) :
          /\ RendersDelete(path)
          /\ Dispatch(path, DeleteCallback(path).path,
                      DeleteCallback(path).msg)
    /\ UNCHANGED <<fieldVars, viewVars>>

\* A NodeMsg sent to an instance through its scope: the rename of another
\* group's name field, or a message that does not fit the node it meets.
SendMsg ==
    /\ Quiescent
    /\ \E path \in Paths(rendered), msg \in SentMsgs :
          /\ Size(rendered) + Growth(path, msg) <= MaxNodes
          /\ Dispatch(path, path, msg)
    /\ UNCHANGED <<fieldVars, viewVars>>

\* NodeDisplay::update for the scheduled message, if it is of `type`.
HandleMsg(type) ==
    /\ queue # <<>>
    /\ queue[1].msg.type = type
    /\ LET m == queue[1]
           node == NodeProp(m.path)
           call == Update(node, m.path, m.msg)
       IN  /\ last' = << [path |-> m.path, node |-> node, msg |-> m.msg,
                          emit |-> call] >>
           /\ IF call = <<>>
              THEN queue' = <<>> /\ UNCHANGED ownerCall
              ELSE IF m.path = <<>>
              THEN queue' = <<>> /\ ownerCall' = call
              ELSE queue' = << ReplaceCallback(m.path, call[1]) >>
                   /\ UNCHANGED ownerCall
    /\ UNCHANGED <<root, rendered, dirty, intent, scen, fieldVars,
                   viewVars>>

HandleReplaceChild == HandleMsg("ReplaceChild")
HandleDeleteChild == HandleMsg("DeleteChild")
HandleAddChild == HandleMsg("AddChild")
HandleRename == HandleMsg("Rename")

\* The root owner persists the node it received as the new root.
OwnerCommit ==
    /\ ownerCall # <<>>
    /\ root' = ownerCall[1].node
    /\ ownerCall' = <<>>
    /\ dirty' = TRUE
    /\ last' = <<>>
    /\ UNCHANGED <<rendered, queue, intent, scen, fieldVars, viewVars>>

----------------------------------------------------------------------------
(* GroupName: the name field of the root instance *)

\* <GroupName name={group.name.clone()} {rename} /> of the root instance
NameProp == rendered.name

\* view_group: rename = link.callback(|name| NodeMsg::Rename { name })
RenameCallback(name) == [path |-> <<>>, msg |-> Rename(name)]

\* GroupName::view: the label without a draft, the form with one.
View(draft) == IF draft = <<>> THEN "label" ELSE "form"

\* A plausible slip: the flag is not set after the focus request.
RenderedForgets(focused, view) == focused

\* GroupName::rendered: did_focus after a render that displays `view`; the
\* input reference resolves only while the form is displayed.
Rendered(focused, view) == focused \/ view = "form"

\* GroupName::rendered: input.focus() is called when the flag is not set and
\* the input reference resolves.
FocusRequested(focused, view) == ~focused /\ view = "form"

(* What a call of GroupName does: the fields it leaves, whether it asks for
   a render, and the rename calls it makes. *)

\* A plausible slip: the draft starts empty, not as the current name.
GroupNameStartEditEmpty(name) ==
    [pending |-> << <<>> >>, did_focus |-> FALSE, render |-> TRUE,
     emits |-> <<>>]

\* update(StartEdit): the draft is the name prop, the focus flag is reset.
GroupNameStartEdit(name) ==
    [pending |-> <<name>>, did_focus |-> FALSE, render |-> TRUE,
     emits |-> <<>>]

GroupNameUpdatePending(text) ==
    [pending |-> <<text>>, did_focus |-> did_focus, render |-> TRUE,
     emits |-> <<>>]

\* A plausible slip: the draft is read and not taken.
GroupNameCommitEditKeep ==
    [pending |-> pending, did_focus |-> did_focus, render |-> FALSE,
     emits |-> pending]

\* A plausible slip: without a draft the default string is emitted.
GroupNameCommitEditDefault ==
    [pending |-> <<>>, did_focus |-> did_focus, render |-> FALSE,
     emits |-> IF pending = <<>> THEN << <<>> >> ELSE pending]

\* self.pending.take(): the draft, if any, is emitted and gone.
GroupNameCommitEdit ==
    [pending |-> <<>>, did_focus |-> did_focus, render |-> FALSE,
     emits |-> pending]

\* A plausible slip: the draft survives the prop change.
GroupNameChangedKeep ==
    [pending |-> pending, did_focus |-> did_focus, render |-> TRUE,
     emits |-> <<>>]

\* GroupName::changed
GroupNameChanged ==
    [pending |-> <<>>, did_focus |-> did_focus, render |-> TRUE,
     emits |-> <<>>]

\* The fields after the call, the render it asked for, and rendered().
Apply(r) ==
    /\ pending' = r.pending
    /\ shown' = IF r.render THEN View(r.pending) ELSE shown
    /\ did_focus' = IF r.render THEN Rendered(r.did_focus, shown')
                    ELSE r.did_focus

\* The number of focus requests of the call: those of the render it asked
\* for.
Focuses(r) ==
    IF r.render /\ FocusRequested(r.did_focus, View(r.pending)) THEN 1 ELSE 0

NoEdit == [phase |-> "none", typed |-> <<>>, emits |-> <<>>, focuses |-> 0]

\* A click on the name or on the edit button of the label.
StartEdit ==
    /\ Quiescent
    /\ shown = "label"
    /\ Apply(GroupNameStartEdit(NameProp))
    /\ edit' = [phase |-> "started", typed |-> NameProp,
                emits |-> GroupNameStartEdit(NameProp).emits,
                focuses |-> Focuses(GroupNameStartEdit(NameProp))]
    /\ flast' = [ev |-> "StartEdit", draft |-> pending,
                 emits |-> GroupNameStartEdit(NameProp).emits,
                 discarded |-> <<>>,
                 focus |-> Focuses(GroupNameStartEdit(NameProp))]
    /\ UNCHANGED <<treeVars, viewVars>>

\* An input event of the form's text input.
UpdatePending ==
    /\ Quiescent
    /\ shown = "form"
    /\ \E text \in NameInputs :
          /\ Apply(GroupNameUpdatePending(text))
          /\ edit' = IF edit.phase = "started"
                     THEN [edit EXCEPT !.typed = text,
                              !.emits = @ \o GroupNameUpdatePending(text).emits,
                              !.focuses =
                                  @ + Focuses(GroupNameUpdatePending(text))]
                     ELSE NoEdit
          /\ flast' = [flast EXCEPT !.ev = "UpdatePending",
                          !.draft = pending,
                          !.emits = GroupNameUpdatePending(text).emits,
                          !.focus = Focuses(GroupNameUpdatePending(text))]
    /\ UNCHANGED <<treeVars, viewVars>>

\* GroupName::update(CommitEdit): a rename call reaches the root instance
\* as a Rename message.
CommitEdit ==
    /\ Apply(GroupNameCommitEdit)
    /\ edit' = IF edit.phase = "started"
               THEN [edit EXCEPT !.phase = "committed",
                        !.emits = @ \o GroupNameCommitEdit.emits,
                        !.focuses = @ + Focuses(GroupNameCommitEdit)]
               ELSE NoEdit
    /\ flast' = [flast EXCEPT !.ev = "CommitEdit", !.draft = pending,
                    !.emits = GroupNameCommitEdit.emits,
                    !.focus = Focuses(GroupNameCommitEdit)]
    /\ IF GroupNameCommitEdit.emits # <<>>
       THEN Dispatch(<<>>,
                     RenameCallback(GroupNameCommitEdit.emits[1]).path,
                     RenameCallback(GroupNameCommitEdit.emits[1]).msg)
       ELSE UNCHANGED treeVars
    /\ UNCHANGED viewVars

\* The submit event of the displayed form.
SubmitForm == Quiescent /\ shown = "form" /\ CommitEdit

\* A duplicate or out-of-order submit event: it arrives after the form was
\* replaced by the label.
LateSubmit == Quiescent /\ shown = "label" /\ CommitEdit

----------------------------------------------------------------------------
(* Rendering *)

\* The next cycle after a commit renders the committed root.  The root
\* instance's view runs again and gives its GroupName a new rename callback,
\* so the GroupName is notified of a prop change.
RenderChanged ==
    /\ dirty
    /\ rendered' = root
    /\ dirty' = FALSE
    /\ Apply(GroupNameChanged)
    /\ edit' = NoEdit
    /\ flast' = [ev |-> "changed", draft |-> pending,
                 emits |-> GroupNameChanged.emits,
                 discarded |-> IF pending # <<>> THEN pending
                               ELSE flast.discarded,
                 focus |-> Focuses(GroupNameChanged)]
    /\ UNCHANGED <<root, queue, ownerCall, last, intent, scen, viewVars>>

\* The committed root equals the rendered one and the root owner passes the
\* same callbacks: no prop of the root instance changed, nothing is notified.
RenderSame ==
    /\ dirty
    /\ rendered = root
    /\ dirty' = FALSE
    /\ UNCHANGED <<root, rendered, queue, ownerCall, last, intent, scen,
                   fieldVars, viewVars>>

\* The handling of one user event is over; what it did is no longer observed.
Idle ==
    /\ Settled
    /\ ~Quiescent
    /\ last' = <<>>
    /\ intent' = <<>>
    /\ flast' = [flast EXCEPT !.ev = "idle", !.draft = <<>>, !.emits = <<>>,
                    !.focus = 0]
    /\ UNCHANGED <<root, rendered, dirty, queue, ownerCall, scen, pending,
                   did_focus, shown, edit, viewVars>>

----------------------------------------------------------------------------
(* Icons and balance rows *)

ImagePrefix ==
    <<"/", "i", "m", "a", "g", "e", "s", "/", "i", "t", "e", "m", "s", "/">>
ImageSuffix == <<"_", "6", "4", ".", "p", "n", "g">>

\* String::insert_str(idx, string)
InsertStr(str, idx, string) ==
    SubSeq(str, 1, idx) \o string \o SubSeq(str, idx + 1, Len(str))

\* String::push_str(string)
PushStr(str, string) == str \o string

\* A plausible slip: the directory is appended, not inserted at the front.
SlugToIconAppended(slug) ==
    PushStr(InsertStr(slug, Len(slug), ImagePrefix), ImageSuffix)

\* slug_to_icon
SlugToIcon(slug) == PushStr(InsertStr(slug, 0, ImagePrefix), ImageSuffix)

\* The characters of the slugs the model explores.
SlugChars == {"a", "-", "_"}

Slugs == UNION { [1..n -> SlugChars] : n \in 0..MaxSlugLen }

\* The Props of Icon: icon and alt are Options.
IconProps == { [icon |-> i, alt |-> a] :
                  i \in {<<>>} \cup { <<s>> : s \in Slugs },
                  a \in {<<>>, <<NameA>>} }

ErrorGlyph == <<"e", "r", "r", "o", "r">>

\* icon: an image of the slug's path, or the error glyph without a slug.
Icon(props) ==
    IF props.icon # <<>>
    THEN [tag |-> "img", class |-> "icon", src |-> SlugToIcon(props.icon[1]),
          alt |-> props.alt]
    ELSE [tag |-> "span", class |-> "icon material-icons error",
          text |-> ErrorGlyph]

PowerLineSlug == <<"p", "o", "w", "e", "r", "-", "l", "i", "n", "e">>
FallbackSlug ==
    <<"e", "x", "p", "a", "n", "d", "e", "d", "-", "p", "o", "w", "e", "r",
      "-", "i", "n", "f", "r", "a", "s", "t", "r", "u", "c", "t", "u", "r",
      "e">>
Unknown == <<"u", "n", "k", "n", "o", "w", "n">>
Power == <<"p", "o", "w", "e", "r">>

\* The item ids of the balances; the database knows some of them.
ItemIds == {"iron-ore", "wire", "ghost"}

ItemOf(id) ==
    CASE id = "iron-ore" ->
             [name |-> <<"I", "r", "o", "n", " ", "O", "r", "e">>,
              image |-> <<"a", "-", "a">>]
      [] id = "wire" -> [name |-> <<"W", "i", "r", "e">>, image |-> <<"a">>]
      [] OTHER -> [name |-> <<"G", "h", "o", "s", "t">>, image |-> <<"_">>]

Databases == { [id \in known |-> ItemOf(id)] : known \in SUBSET ItemIds }

\* Database::get
DbGet(db, id) == IF id \in DOMAIN db THEN << db[id] >> ELSE <<>>

\* The rates of the balances: below, at and above zero.
Rates == {-1, 0, 1}

\* The per-item entries of a balance in iteration order: no item id twice.
Entries ==
    { e \in UNION { [1..n -> [item : ItemIds, rate : Rates]] :
                       n \in 0..MaxEntries } :
         \A j, k \in 1..Len(e) : j # k => e[j].item # e[k].item }

Balances == [power : Rates, balances : Entries]

\* balance_style
BalanceStyle(balance) ==
    IF balance < 0 THEN "negative"
    ELSE IF balance > 0 THEN "positive"
    ELSE "neutral"

\* The icon and the label of one entry of view_balance.
EntryRow(entry, db) ==
    LET item == DbGet(db, entry.item)
        icon == IF item # <<>> THEN SlugToIcon(item[1].image)
                ELSE SlugToIcon(FallbackSlug)
        name == IF item # <<>> THEN item[1].name ELSE Unknown
    IN  [src |-> icon, alt |-> name, class |-> BalanceStyle(entry.rate),
         value |-> entry.rate]

\* A plausible slip: an entry the database does not know is skipped.
ViewBalanceSkipUnknown(balance, db) ==
    LET known == SelectSeq(balance.balances,
                           LAMBDA e : DbGet(db, e.item) # <<>>)
    IN  [power |-> [src |-> SlugToIcon(PowerLineSlug), alt |-> Power,
                    class |-> BalanceStyle(balance.power),
                    value |-> balance.power],
         rows |-> [k \in 1..Len(known) |-> EntryRow(known[k], db)]]

\* view_balance: the power row, then one row per entry.
ViewBalance(balance, db) ==
    [power |-> [src |-> SlugToIcon(PowerLineSlug), alt |-> Power,
                class |-> BalanceStyle(balance.power),
                value |-> balance.power],
     rows |-> [k \in 1..Len(balance.balances) |->
                  EntryRow(balance.balances[k], db)]]

\* No view function is under observation.
NoView == [kind |-> "none"]

ViewInputs ==
    { [kind |-> "icon", props |-> p] : p \in IconProps }
        \cup { [kind |-> "balance", balance |-> b, db |-> d] :
                  b \in Balances, d \in Databases }

\* The Icon component renders its props.
RenderIcon ==
    /\ viewIn.kind = "icon"
    /\ viewOut = <<>>
    /\ viewOut' = << Icon(viewIn.props) >>
    /\ UNCHANGED <<viewIn, treeVars, fieldVars>>

\* A group instance renders the balance of its node.
RenderBalance ==
    /\ viewIn.kind = "balance"
    /\ viewOut = <<>>
    /\ viewOut' = << ViewBalance(viewIn.balance, viewIn.db) >>
    /\ UNCHANGED <<viewIn, treeVars, fieldVars>>

----------------------------------------------------------------------------
(* Specification *)

Init ==
    /\ root = ScenRoot
    /\ rendered = ScenRoot
    /\ dirty = FALSE
    /\ queue = <<>>
    /\ ownerCall = <<>>
    /\ last = <<>>
    /\ intent = <<>>
    /\ scen = "start"
    /\ pending = <<>>
    /\ did_focus = FALSE
    /\ shown = "label"
    /\ edit = NoEdit
    /\ flast = [ev |-> "idle", draft |-> <<>>, emits |-> <<>>,
                discarded |-> <<>>, focus |-> 0]
    /\ viewIn = NoView
    /\ viewOut = <<>>

\* The handling of a scheduled message, the commit and the render.
Propagate ==
    \/ HandleReplaceChild
    \/ HandleDeleteChild
    \/ HandleAddChild
    \/ HandleRename
    \/ OwnerCommit
    \/ RenderChanged
    \/ RenderSame
    \/ Idle

\* The tree editor: the buttons of every instance and the messages sent to
\* it, the name field of the root instance left alone.
Next ==
    \/ ClickAddGroup
    \/ ClickAddBuilding
    \/ ClickDelete
    \/ SendMsg
    \/ Propagate

Spec == Init /\ [][Next]_vars

\* The component scheduler handles every scheduled message, delivers every
\* call and runs every requested render.
LiveSpec == Spec /\ WF_vars(Propagate)

\* The name field of the root instance, with the buttons of the tree as the
\* source of prop changes.
FieldNext ==
    \/ StartEdit
    \/ UpdatePending
    \/ SubmitForm
    \/ LateSubmit
    \/ ClickAddGroup
    \/ ClickAddBuilding
    \/ ClickDelete
    \/ Propagate

FieldSpec == Init /\ [][FieldNext]_vars

\* The view functions, each applied to every input within the bounds.
ViewInit ==
    /\ root = ScenRoot
    /\ rendered = ScenRoot
    /\ dirty = FALSE
    /\ queue = <<>>
    /\ ownerCall = <<>>
    /\ last = <<>>
    /\ intent = <<>>
    /\ scen = "start"
    /\ pending = <<>>
    /\ did_focus = FALSE
    /\ shown = "label"
    /\ edit = NoEdit
    /\ flast = [ev |-> "idle", draft |-> <<>>, emits |-> <<>>,
                discarded |-> <<>>, focus |-> 0]
    /\ viewIn \in ViewInputs
    /\ viewOut = <<>>

ViewNext ==
    \/ RenderIcon
    \/ RenderBalance

ViewSpec == ViewInit /\ [][ViewNext]_vars

----------------------------------------------------------------------------
(* Properties of NodeDisplay::update *)

\* The message handled last was `type`, met a group, and (for a message
\* that carries an index) the index was in range.
HandledValid(type) ==
    /\ last # <<>>
    /\ last[1].msg.type = type
    /\ IsGroup(last[1].node)
    /\ type \in {"ReplaceChild", "DeleteChild"}
          => last[1].msg.idx < Len(last[1].node.children)

\* The call is replace(ownIndex, G') for a group G'.
EmitsGroup ==
    /\ Len(last[1].emit) = 1
    /\ IsGroup(last[1].emit[1].node)
    /\ last[1].path # <<>>
          => last[1].emit[1].idx = last[1].path[Len(last[1].path)]

\* C1: handling ReplaceChild(i, X) on a group G with i in range emits
\* replace(ownIndex, G') where G'.children[i] = X, G' has as many children
\* as G, every other child is unchanged and in place, and G'.name = G.name.
C1_ReplaceChild ==
    HandledValid("ReplaceChild") =>
        LET G == last[1].node
            i == last[1].msg.idx
            X == last[1].msg.replacement
            H == last[1].emit[1].node
        IN  /\ EmitsGroup
            /\ Len(H.children) = Len(G.children)
            /\ H.children[i + 1] = X
            /\ \A j \in 0..(Len(G.children) - 1) :
                  j # i => H.children[j + 1] = G.children[j + 1]
            /\ H.name = G.name

\* A child of a group with two different children was replaced by a third.
C1_Witness ==
    /\ HandledValid("ReplaceChild")
    /\ Len(last[1].node.children) = 2
    /\ last[1].node.children[1] # last[1].node.children[2]
    /\ last[1].msg.replacement \notin
          {last[1].node.children[1], last[1].node.children[2]}
    /\ last[1].emit # <<>>

\* C2: handling DeleteChild(i) on a group G with i in range emits
\* replace(ownIndex, G') where G' has one child less, the children before i
\* are unchanged, every later child moved down by exactly one, and
\* G'.name = G.name.
C2_DeleteChild ==
    HandledValid("DeleteChild") =>
        LET G == last[1].node
            i == last[1].msg.idx
            H == last[1].emit[1].node
        IN  /\ EmitsGroup
            /\ Len(H.children) + 1 = Len(G.children)
            /\ \A j \in 0..(Len(H.children) - 1) :
                  /\ j < i => H.children[j + 1] = G.children[j + 1]
                  /\ j >= i => H.children[j + 1] = G.children[j + 2]
            /\ H.name = G.name

\* The first of two different children was deleted: the second moved down.
C2_Witness ==
    /\ HandledValid("DeleteChild")
    /\ last[1].msg.idx = 0
    /\ Len(last[1].node.children) = 2
    /\ last[1].node.children[1] # last[1].node.children[2]
    /\ last[1].emit # <<>>
    /\ last[1].emit[1].node.children = <<last[1].node.children[2]>>

\* The intent dispatched last was committed (and, if not dirty, rendered).
Committed ==
    intent # <<>> /\ last = <<>> /\ queue = <<>> /\ ownerCall = <<>>

\* C3: handling AddChild(X) on a group G emits replace(ownIndex, G') where
\* G'.children[len(G.children)] = X, G' has one child more, every existing
\* child keeps its index and value, and G'.name = G.name; once committed
\* and rendered, X is rendered at path parentPath + [old length].
C3_AddChild ==
    /\ HandledValid("AddChild") =>
          LET G == last[1].node
              X == last[1].msg.child
              H == last[1].emit[1].node
          IN  /\ EmitsGroup
              /\ Len(H.children) = Len(G.children) + 1
              /\ H.children[Len(G.children) + 1] = X
              /\ \A j \in 1..Len(G.children) : H.children[j] = G.children[j]
              /\ H.name = G.name
    /\ (Committed /\ ~dirty /\ intent[1].msg.type = "AddChild") =>
          LET p == intent[1].path
              old == Len(SubtreeAt(intent[1].before, p).children)
          IN  /\ p \o <<old>> \in Paths(rendered)
              /\ NodeProp(p \o <<old>>) = intent[1].msg.child

\* A child was added to a group that already had one, and the result is
\* rendered: the new child is the second.
C3_Witness ==
    /\ Committed /\ ~dirty
    /\ intent[1].msg.type = "AddChild"
    /\ Len(SubtreeAt(intent[1].before, intent[1].path).children) = 1
    /\ Len(NodeProp(intent[1].path).children) = 2
    /\ NodeProp(intent[1].path \o <<1>>) = intent[1].msg.child

\* `t` is `s` without its leading and trailing whitespace.
IsTrimOf(t, s) ==
    \E a \in 0..Len(s), b \in 0..Len(s) :
        /\ a + Len(t) + b = Len(s)
        /\ SubSeq(s, a + 1, a + Len(t)) = t
        /\ \A k \in 1..a : s[k] = " "
        /\ \A k \in (Len(s) - b + 1)..Len(s) : s[k] = " "
        /\ t # <<>> => t[1] # " " /\ t[Len(t)] # " "

\* C4: handling Rename(s) on a group G emits replace(ownIndex, G') where
\* G'.name is s without leading and trailing whitespace and
\* G'.children = G.children; an empty or all-whitespace s gives the empty
\* name and is emitted all the same.
C4_Rename ==
    HandledValid("Rename") =>
        LET G == last[1].node
            s == last[1].msg.name
            H == last[1].emit[1].node
        IN  /\ EmitsGroup
            /\ IsTrimOf(H.name, s)
            /\ (\A k \in 1..Len(s) : s[k] = " ") => H.name = <<>>
            /\ H.children = G.children

\* A name with whitespace at both ends and inside was given to a group with
\* children.
C4_Witness ==
    /\ HandledValid("Rename")
    /\ last[1].msg.name = <<" ", "a", " ", "b", " ">>
    /\ last[1].node.children # <<>>
    /\ last[1].emit # <<>>
    /\ last[1].emit[1].node.name = <<"a", " ", "b">>

----------------------------------------------------------------------------
(* Properties of the propagation to the root *)

\* The pure transform an intent stands for, written out child by child.
Edited(G, msg) ==
    LET c == G.children
        n == Len(G.children)
    IN  CASE msg.type = "ReplaceChild" ->
                 GroupNode(G.name, [j \in 1..n |-> IF j = msg.idx + 1
                                                   THEN msg.replacement
                                                   ELSE c[j]])
          [] msg.type = "DeleteChild" ->
                 GroupNode(G.name, [j \in 1..(n - 1) |-> IF j <= msg.idx
                                                         THEN c[j]
                                                         ELSE c[j + 1]])
          [] msg.type = "AddChild" ->
                 GroupNode(G.name, [j \in 1..(n + 1) |-> IF j <= n THEN c[j]
                                                         ELSE msg.child])
          [] msg.type = "Rename" ->
                 GroupNode(CHOOSE t \in {SubSeq(msg.name, a, b) :
                                           a \in 1..(Len(msg.name) + 1),
                                           b \in 0..Len(msg.name)} :
                               IsTrimOf(t, msg.name),
                           c)

\* `tree` with the node at `path` replaced by its edited version.
RECURSIVE WithEdit(_, _, _)
WithEdit(tree, path, msg) ==
    IF path = <<>> THEN Edited(tree, msg)
    ELSE GroupNode(tree.name,
                   [j \in 1..Len(tree.children) |->
                       IF j = path[1] + 1
                       THEN WithEdit(tree.children[j], Tail(path), msg)
                       ELSE tree.children[j]])

\* Every node of `before` that is neither on the way to `path` nor below it
\* is the same node, at the same path, in `after`.
OffPathUnchanged(before, after, path) ==
    \A q \in Paths(before) :
        (~IsPrefix(q, path) /\ ~IsPrefix(path, q)) =>
            q \in Paths(after) /\ SubtreeAt(after, q) = SubtreeAt(before, q)

\* C5: once a valid intent dispatched at path p is propagated and
\* committed, the committed root is the previous root with the edit applied
\* at p, and every node that is neither on the way from the root to p nor
\* below p is unchanged.  From
\* Group{Root,[Group{A,[]}]}: AddChild(emptyBuilding) at [0] gives
\* children[0] one child, then DeleteChild(0) at [0] gives it none, then
\* Rename("Factory") at [] gives the root the name "Factory".
C5_CommittedEdit ==
    /\ Committed =>
          /\ root = WithEdit(intent[1].before, intent[1].path, intent[1].msg)
          /\ OffPathUnchanged(intent[1].before, root, intent[1].path)
    /\ (queue = <<>> /\ ownerCall = <<>>) =>
          /\ scen = "added" =>
                /\ Len(root.children[1].children) = 1
                /\ root.children[1].children[1] = EmptyBuilding
          /\ scen = "deleted" => Len(root.children[1].children) = 0
          /\ scen = "renamed" =>
                /\ root.name = NameFactory
                /\ root.children = <<GroupNode(NameA, <<>>)>>

\* The third step of the scenario was committed and rendered.
C5_Witness ==
    /\ Committed
    /\ ~dirty
    /\ scen = "renamed"
    /\ rendered = GroupNode(NameFactory, <<GroupNode(NameA, <<>>)>>)

\* C6: with a root owner that commits and renders before the next user
\* event, every message at every level is handled against the node the
\* committed root has at that path, and a commit applies its edit to the
\* root committed last: no committed edit is lost or undone, no index meets
\* a children list other than the committed one.
C6_NoStaleIndex ==
    /\ last # <<>> =>
          /\ last[1].path \in Paths(root)
          /\ last[1].node = SubtreeAt(root, last[1].path)
    /\ queue # <<>> =>
          /\ rendered = root
          /\ queue[1].path \in Paths(root)
          /\ intent # <<>> /\ intent[1].before = root
    /\ ownerCall # <<>> => intent # <<>> /\ intent[1].before = root
    /\ Committed =>
          root = WithEdit(intent[1].before, intent[1].path, intent[1].msg)

\* A second edit was committed at index 1 of the root, an index that exists
\* only since an earlier committed edit, and the first child is still the
\* one committed before.
C6_Witness ==
    /\ Committed
    /\ intent[1].before # ScenRoot
    /\ intent[1].path = <<>>
    /\ intent[1].msg.type \in {"ReplaceChild", "DeleteChild"}
    /\ intent[1].msg.idx = 1
    /\ root # intent[1].before
    /\ root.children[1] = intent[1].before.children[1]

----------------------------------------------------------------------------
(* Properties of the dropped messages *)

\* The message handled last was dropped: nothing was emitted, nothing is
\* scheduled or received, and the committed tree is the one the intent met.
Dropped ==
    /\ last[1].emit = <<>>
    /\ queue = <<>>
    /\ ownerCall = <<>>
    /\ ~dirty
    /\ intent # <<>>
    /\ root = intent[1].before
    /\ rendered = root

\* C9: a ReplaceChild(i, X) or DeleteChild(i) with i >= len(G.children)
\* handled by a group instance emits no call and leaves the committed tree
\* unchanged: it is dropped, not clamped, not applied in part.
C9_OutOfRangeDropped ==
    (/\ last # <<>>
     /\ last[1].msg.type \in {"ReplaceChild", "DeleteChild"}
     /\ IsGroup(last[1].node)
     /\ last[1].msg.idx >= Len(last[1].node.children))
        => Dropped

\* The index just past the end of a non-empty children list was handled.
C9_Witness ==
    /\ last # <<>>
    /\ last[1].msg.type \in {"ReplaceChild", "DeleteChild"}
    /\ IsGroup(last[1].node)
    /\ last[1].node.children # <<>>
    /\ last[1].msg.idx = Len(last[1].node.children)
    /\ last[1].emit = <<>>

\* C10: a ReplaceChild, DeleteChild, AddChild or Rename handled by an
\* instance whose node prop is a Building emits no replace call and leaves
\* the committed tree unchanged.
C10_LeafDropped ==
    (last # <<>> /\ ~IsGroup(last[1].node)) => Dropped

\* A Rename was handled by a Building instance.
C10_Witness ==
    /\ last # <<>>
    /\ last[1].node.kind = "Building"
    /\ last[1].msg.type = "Rename"
    /\ last[1].emit = <<>>
    /\ root = intent[1].before

----------------------------------------------------------------------------
(* Properties of GroupName *)

\* C7: StartEdit, any number of UpdatePending(s_k), CommitEdit, with no prop
\* change in between, make exactly one rename call, with the last s_k (the
\* name prop at StartEdit if nothing was typed), and leave no draft.
C7_EditRoundTrip ==
    /\ edit.phase = "started" => edit.emits = <<>>
    /\ edit.phase = "committed" =>
          /\ edit.emits = <<edit.typed>>
          /\ pending = <<>>

\* Text was typed after StartEdit and committed: the rename call carries it
\* to the root instance.
C7_Witness ==
    /\ edit.phase = "committed"
    /\ flast.ev = "CommitEdit"
    /\ edit.typed # NameProp
    /\ edit.typed # <<>>
    /\ queue = << RenameCallback(edit.typed) >>

\* C8: a prop change notified while the field holds a draft discards the
\* draft, leaves the field in Viewing and makes no rename call; a later
\* CommitEdit without a new StartEdit does not emit the discarded draft.
C8_DraftDiscarded ==
    /\ flast.ev = "changed" =>
          /\ pending = <<>>
          /\ shown = "label"
          /\ flast.emits = <<>>
          /\ queue = <<>>
    /\ (flast.ev = "CommitEdit" /\ flast.discarded # <<>>) =>
          \A k \in 1..Len(flast.emits) : flast.emits[k] # flast.discarded[1]

\* A CommitEdit was handled after a notification discarded a draft, with no
\* StartEdit in between.
C8_Witness ==
    /\ flast.ev = "CommitEdit"
    /\ flast.discarded # <<>>
    /\ flast.discarded[1] # NameProp

\* C11: a CommitEdit handled while the field holds no draft makes no rename
\* call (no message reaches the root instance) and leaves pending, did_focus
\* and the display as they were; so the CommitEdit that follows a committed
\* edit sequence, with no StartEdit in between, makes no second rename call.
C11_CommitWithoutDraft ==
    [][ (flast.ev = "idle" /\ flast'.ev = "CommitEdit") =>
           /\ pending = <<>> =>
                 /\ flast'.emits = <<>>
                 /\ queue' = <<>>
                 /\ intent' = <<>>
                 /\ pending' = pending
                 /\ did_focus' = did_focus
                 /\ shown' = shown
           /\ edit.phase = "committed" =>
                 /\ flast'.emits = <<>>
                 /\ queue' = <<>> ]_vars

\* The form was submitted a second time: the first submit took the draft
\* and the form is still displayed.
C11_Witness ==
    /\ flast.ev = "CommitEdit"
    /\ flast.draft = <<>>
    /\ flast.emits = <<>>
    /\ shown = "form"
    /\ did_focus
    /\ queue = <<>>

----------------------------------------------------------------------------
(* Properties of the delete affordance *)

\* C12 as stated: every rendered instance renders a delete affordance
\* exactly when it was given a delete callback.
C12_AffordanceIffCallback ==
    \A p \in Paths(rendered) : RendersDelete(p) <=> DeleteProp(p) # <<>>

\* C12, amended: every child instance is given a delete callback and the
\* instance with the empty path none; a group instance renders a delete
\* affordance exactly when it was given a callback and a building instance
\* renders none; the instance with the empty path renders none.  So every
\* delete request is a DeleteChild addressed to a rendered instance, the
\* root owner receives replace calls only, each carrying a group, and the
\* committed root is a group whose name no deletion changes.
C12_RootNeverDeleted ==
    /\ \A p \in Paths(rendered) :
          /\ DeleteProp(p) # <<>> <=> p # <<>>
          /\ IsGroup(NodeProp(p)) =>
                (RendersDelete(p) <=> DeleteProp(p) # <<>>)
          /\ ~IsGroup(NodeProp(p)) => ~RendersDelete(p)
    /\ ~RendersDelete(<<>>)
    /\ (queue # <<>> /\ queue[1].msg.type = "DeleteChild") =>
          queue[1].path \in Paths(rendered)
    /\ ownerCall # <<>> =>
          /\ DOMAIN ownerCall[1] = {"idx", "node"}
          /\ ownerCall[1].idx = 0
          /\ IsGroup(ownerCall[1].node)
    /\ IsGroup(root)
    /\ (intent # <<>> /\ intent[1].msg.type = "DeleteChild") =>
          root.name = intent[1].before.name

\* A deletion was committed while a group child with the affordance and a
\* building child without it were rendered.
C12_Witness ==
    /\ Committed
    /\ intent[1].msg.type = "DeleteChild"
    /\ root # intent[1].before
    /\ IsGroup(root)
    /\ \E p, q \in Paths(rendered) :
          /\ RendersDelete(p)
          /\ ~IsGroup(NodeProp(q))
          /\ DeleteProp(q) # <<>>
          /\ ~RendersDelete(q)

----------------------------------------------------------------------------
(* Properties of the rendered icons and balance rows *)

\* C13: the Icon component given a slug s renders an image whose path is
\* exactly "/images/items/" + s + "_64.png", whatever s and the alt text
\* are; given no slug it renders the error glyph and no image path.  The
\* power row of a balance has the path of the slug "power-line".
C13_IconPath ==
    /\ (viewIn.kind = "icon" /\ viewOut # <<>>) =>
          IF viewIn.props.icon # <<>>
          THEN /\ viewOut[1].tag = "img"
               /\ viewOut[1].src =
                     <<"/", "i", "m", "a", "g", "e", "s", "/", "i", "t",
                       "e", "m", "s", "/">>
                        \o viewIn.props.icon[1]
                        \o <<"_", "6", "4", ".", "p", "n", "g">>
          ELSE /\ viewOut[1].tag = "span"
               /\ viewOut[1].text = <<"e", "r", "r", "o", "r">>
               /\ "src" \notin DOMAIN viewOut[1]
    /\ (viewIn.kind = "balance" /\ viewOut # <<>>) =>
          viewOut[1].power.src =
              <<"/", "i", "m", "a", "g", "e", "s", "/", "i", "t", "e", "m",
                "s", "/", "p", "o", "w", "e", "r", "-", "l", "i", "n", "e",
                "_", "6", "4", ".", "p", "n", "g">>

\* The Icon component rendered a slug that ends with a separator.
C13_Witness ==
    /\ viewIn.kind = "icon"
    /\ viewIn.props.icon = << <<"a", "-">> >>
    /\ viewOut # <<>>
    /\ viewOut[1].src =
          <<"/", "i", "m", "a", "g", "e", "s", "/", "i", "t", "e", "m",
            "s", "/", "a", "-", "_", "6", "4", ".", "p", "n", "g">>

\* C14: a balance is rendered as one row per entry, in order; the row of
\* an entry whose item id the database does not know has the label
\* "unknown" and the icon of the slug "expanded-power-infrastructure", and
\* the row of an entry the database knows has the item's name and the icon
\* of the item's image slug; an unknown entry stops no later row.
C14_UnknownItem ==
    (viewIn.kind = "balance" /\ viewOut # <<>>) =>
        LET entries == viewIn.balance.balances
            db == viewIn.db
            rows == viewOut[1].rows
        IN  /\ Len(rows) = Len(entries)
            /\ \A k \in 1..Len(entries) :
                  /\ rows[k].value = entries[k].rate
                  /\ IF entries[k].item \in DOMAIN db
                     THEN /\ rows[k].alt = db[entries[k].item].name
                          /\ rows[k].src =
                                <<"/", "i", "m", "a", "g", "e", "s", "/",
                                  "i", "t", "e", "m", "s", "/">>
                                   \o db[entries[k].item].image
                                   \o <<"_", "6", "4", ".", "p", "n", "g">>
                     ELSE /\ rows[k].alt = <<"u", "n", "k", "n", "o", "w", "n">>
                          /\ rows[k].src =
                                <<"/", "i", "m", "a", "g", "e", "s", "/",
                                  "i", "t", "e", "m", "s", "/", "e", "x",
                                  "p", "a", "n", "d", "e", "d", "-", "p",
                                  "o", "w", "e", "r", "-", "i", "n", "f",
                                  "r", "a", "s", "t", "r", "u", "c", "t",
                                  "u", "r", "e", "_", "6", "4", ".", "p",
                                  "n", "g">>

\* An entry the database does not know was rendered before one it knows.
C14_Witness ==
    /\ viewIn.kind = "balance"
    /\ viewOut # <<>>
    /\ Len(viewIn.balance.balances) = 2
    /\ viewIn.balance.balances[1].item \notin DOMAIN viewIn.db
    /\ viewIn.balance.balances[2].item \in DOMAIN viewIn.db
    /\ viewOut[1].rows[1].alt = <<"u", "n", "k", "n", "o", "w", "n">>
    /\ viewOut[1].rows[2].alt = <<"W", "i", "r", "e">>

----------------------------------------------------------------------------
(* Properties of the propagation to the root owner *)

\* The scheduled message meets a group and, if it carries an index, the
\* index is in range.
ValidScheduled ==
    /\ queue # <<>>
    /\ IsGroup(NodeProp(queue[1].path))
    /\ queue[1].msg.type \in {"ReplaceChild", "DeleteChild"}
          => queue[1].msg.idx < Len(NodeProp(queue[1].path).children)

\* What the handling of one message leaves scheduled or delivered.
OneEmission ==
    last # <<>> =>
        LET h == last[1]
            valid == /\ IsGroup(h.node)
                     /\ h.msg.type \in {"ReplaceChild", "DeleteChild"}
                           => h.msg.idx < Len(h.node.children)
        IN  /\ Len(h.emit) <= 1
            /\ Len(h.emit) = 1 <=> valid
            /\ h.emit = <<>> => (queue = <<>> /\ ownerCall = <<>>)
            /\ (h.emit # <<>> /\ h.path # <<>>) =>
                  /\ queue = << [path |-> SubSeq(h.path, 1, Len(h.path) - 1),
                                 msg |-> ReplaceChild(h.path[Len(h.path)],
                                                      h.emit[1].node)] >>
                  /\ ownerCall = <<>>
            /\ (h.emit # <<>> /\ h.path = <<>>) =>
                  /\ ownerCall = << [idx |-> 0, node |-> h.emit[1].node] >>
                  /\ queue = <<>>

\* C15: the handling of a message makes at most one replace call, and
\* exactly one when the message meets a group with its index in range; the
\* call of an instance below the root is scheduled as ReplaceChild(own
\* index, _) for the instance one level up, the call of the empty-path
\* instance reaches the root owner with index 0, and the owner receives
\* calls from nowhere else.  Once the owner committed, nothing more is
\* scheduled or delivered for the intent.  A valid scheduled message leads
\* to a call received by the root owner.
C15_ReachesRootOwner ==
    /\ []OneEmission
    /\ [](ownerCall # <<>> => (last # <<>> /\ last[1].path = <<>>))
    /\ [](dirty => (queue = <<>> /\ ownerCall = <<>>))
    /\ ValidScheduled ~> (ownerCall # <<>>)

\* The root owner received the call an intent of the instance at depth two
\* led to.
C15_Witness ==
    /\ ownerCall # <<>>
    /\ ownerCall[1].idx = 0
    /\ Len(intent[1].path) = 2
    /\ last[1].path = <<>>
    /\ last[1].msg.type = "ReplaceChild"

----------------------------------------------------------------------------
(* Properties of the focus of the name field *)

\* C16: the render StartEdit asks for requests the input focus once and
\* sets did_focus; no call of UpdatePending or CommitEdit and no prop change
\* requests it, so while the edit StartEdit began goes on the focus was
\* requested exactly once; no call that leaves the label displayed
\* requests it.
C16_FocusOnce ==
    /\ flast.ev = "StartEdit" => (flast.focus = 1 /\ did_focus)
    /\ flast.ev \in {"UpdatePending", "CommitEdit", "changed"} =>
          flast.focus = 0
    /\ edit.phase = "started" => (edit.focuses = 1 /\ did_focus)
    /\ shown = "label" => flast.focus = 0

\* Text was typed into the form StartEdit opened: the render of the typed
\* text requested no focus.
C16_Witness ==
    /\ flast.ev = "UpdatePending"
    /\ edit.phase = "started"
    /\ edit.typed = NameFactory
    /\ edit.focuses = 1
    /\ flast.focus = 0
    /\ shown = "form"
    /\ did_focus

----------------------------------------------------------------------------
(* Properties of the start of an edit *)

\* C17: until the first StartEdit the field holds no draft and displays the
\* label; a StartEdit leaves the name prop of that moment as the draft and
\* the form displayed; neither StartEdit nor UpdatePending makes a rename
\* call: no message is scheduled for the root instance.
C17_StartEditDraft ==
    /\ ~did_focus => (pending = <<>> /\ shown = "label" /\ edit = NoEdit)
    /\ flast.ev = "StartEdit" =>
          /\ pending = << NameProp >>
          /\ shown = "form"
          /\ flast.emits = <<>>
          /\ queue = <<>>
          /\ intent = <<>>
    /\ flast.ev = "UpdatePending" =>
          /\ flast.emits = <<>>
          /\ queue = <<>>
          /\ intent = <<>>

\* An edit was started after the group had been renamed: the draft is the
\* new name.
C17_Witness ==
    /\ flast.ev = "StartEdit"
    /\ NameProp = NameFactory
    /\ pending = << NameFactory >>
    /\ queue = <<>>

----------------------------------------------------------------------------
(* Properties of the paths of the rendered instances *)

\* C18: once the committed root is rendered, the node prop of the instance
\* at every path is the subtree of the committed root at that path, and the
\* last path element of every instance below the root is the index of its
\* node in the children of its parent's node.  A click on the delete button
\* of the instance at p + [i] schedules DeleteChild(i) for the instance at
\* p, which handles it with that node at index i, and the commit removes
\* that node and no other; so it is for the child that moved from index 1
\* to index 0 when the first child was deleted.
C18_PathConsistency ==
    /\ ~dirty =>
          /\ Paths(rendered) = Paths(root)
          /\ \A p \in Paths(rendered) : NodeProp(p) = SubtreeAt(root, p)
    /\ \A p \in Paths(rendered) :
          p # <<>> =>
              LET parent == NodeProp(SubSeq(p, 1, Len(p) - 1))
              IN  /\ IsGroup(parent)
                  /\ p[Len(p)] < Len(parent.children)
                  /\ parent.children[p[Len(p)] + 1] = NodeProp(p)
                  /\ OurIdx(p) = p[Len(p)]
    /\ (intent # <<>> /\ intent[1].from # intent[1].path) =>
          LET q == intent[1].from
              p == SubSeq(q, 1, Len(q) - 1)
              i == q[Len(q)]
              before == intent[1].before
          IN  /\ q # <<>>
              /\ intent[1].path = p
              /\ intent[1].msg = DeleteChild(i)
              /\ (last # <<>> /\ last[1].msg.type = "DeleteChild") =>
                    /\ last[1].path = p
                    /\ last[1].msg.idx = i
                    /\ last[1].node.children[i + 1] = SubtreeAt(before, q)
                    /\ last[1].emit # <<>>
              /\ Committed =>
                    /\ root = WithEdit(before, p, DeleteChild(i))
                    /\ Size(root) = Size(before) - Size(SubtreeAt(before, q))
    /\ (scen = "emptied" /\ Committed) =>
          /\ intent[1].before.children = << EmptyGroup >>
          /\ root.children = <<>>

\* The delete button of the child that an earlier deletion moved from
\* index 1 to index 0 was clicked, and the deletion was committed.
C18_Witness ==
    /\ scen = "emptied"
    /\ Committed
    /\ intent[1].from = <<0>>
    /\ intent[1].before.children = << EmptyGroup >>
    /\ root.children = <<>>

----------------------------------------------------------------------------
(* Properties of the display and the draft of the name field *)

\* C19: once a call is handled, the render it asked for is done and
\* nothing is scheduled any more, the field displays the form if and only
\* if it holds a draft (and the label if and only if it holds none), also
\* after a CommitEdit whose rename left the props as they were.
C19_DisplayAgrees ==
    Settled => (shown = "form" <=> pending # <<>>)

\* C20: the field holds a draft only if a StartEdit was handled since the
\* last CommitEdit or prop change, and a CommitEdit makes a rename call
\* only as the end of an edit a StartEdit began.
C20_DraftNeedsStartEdit ==
    /\ pending # <<>> => edit.phase = "started"
    /\ (flast.ev = "CommitEdit" /\ flast.emits # <<>>) =>
          edit.phase = "committed"

====
